---------------------------- MODULE Spec2Model ----------------------------
(***************************************************************************)
(* A model of the small-file cache of src/aistor/optimizer.py (class       *)
(* AIStor): the metadata index, the running size counter, the small-files  *)
(* directory and the metadata snapshot file, with one action per method.   *)
(*                                                                         *)
(* Byte strings are modelled as prefixes of a few fixed streams: the value *)
(* [id |-> s, len |-> n] is the first n bytes of stream s.  Two byte       *)
(* strings are equal exactly when both fields agree.                       *)
(***************************************************************************)
EXTENDS Integers, Sequences, FiniteSets, TLC

VARIABLES
    small_file_threshold,  \* self.small_file_threshold
    cache_size_limit,      \* self.cache_size_limit
    metadata_cache,        \* self.metadata_cache, a dict: entries in insertion order
    current_cache_size,    \* self.current_cache_size
    small_files_dir,       \* the files under /cache/small-files: location -> bytes
    metadata_file,         \* /cache/metadata/cache_metadata.json: <<>> when absent,
                           \* <<dump>> when whole, <<records, "cut">> when cut short
    now,                   \* the value time.time() returns
    last,                  \* what the most recent call was given and returned
    scenario,              \* the paths the insertion scenario has cached so far
    threads                \* the position and the locals of every caller's thread

vars == <<small_file_threshold, cache_size_limit, metadata_cache,
          current_cache_size, small_files_dir, metadata_file, now, last,
          scenario, threads>>

-----------------------------------------------------------------------------
(* Bounds of the model *)

\* time.time() takes the values 0 .. MaxTime
MaxTime == 2

\* get_cached_file stops counting hits of an entry at MaxAccess
MaxAccess == 2

\* a cache_file call that fails in its sweep leaves current_cache_size at most
\* MaxCounter
MaxCounter == 8192

-----------------------------------------------------------------------------
(* Inputs *)

Path(d, s, x) == [dir |-> d, stem |-> s, suffix |-> x]

\* logical paths the callers use; the first two have the same basename
Paths == { Path("d1", "x", ".json"), Path("d2", "x", ".json"),
           Path("d1", "y", ".JSON") }

\* the paths of the insertion scenario: five distinct logical paths
ScenarioPaths == { Path("d1", "x", ".json"), Path("d2", "x", ".json"),
                   Path("d1", "y", ".json"), Path("d1", "z", ".json"),
                   Path("d1", "w", ".json") }

\* the paths used across restarts
RestartPaths == { Path("d1", "x", ".json"), Path("d2", "x", ".json") }

Bytes(s, n) == [id |-> s, len |-> n]

\* payloads the callers cache
Payloads == { Bytes("A", 2048), Bytes("B", 2048) }

\* the 1024-byte payloads of the insertion scenario
ScenarioPayloads == { Bytes("C", 1024), Bytes("E", 1024) }

\* the payloads cached across restarts
RestartPayloads == { Bytes("A", 2048) }

\* the paths and payloads cached while writes may fail
FaultPaths == { Path("d1", "x", ".json"), Path("d1", "y", ".JSON") }

FaultPayloads == { Bytes("A", 2048) }

\* the paths and payloads cached while unlink() may fail
UnlinkPaths == { Path("d1", "x", ".json"), Path("d1", "y", ".json"),
                 Path("d1", "z", ".json") }

UnlinkPayloads == { Bytes("A", 2048) }

\* the paths, payloads and configuration of a cache that is restarted with
\* files of several paths in its directory
ReloadPaths == { Path("d1", "x", ".json"), Path("d1", "y", ".json") }

ReloadPayloads == { Bytes("A", 9216), Bytes("B", 10240) }

ReloadConfigs == { [small_file_threshold |-> 10240, cache_size_limit |-> 10240] }

\* two paths with one basename, and two payloads of different lengths whose
\* sha256 digests agree in their first 16 hex digits
CollidePaths == { Path("d1", "x", ".json"), Path("d2", "x", ".json") }

CollidePayloads == { Bytes("A", 2048), Bytes("F", 1024) }

\* a path whose extension is outside the allow-list and a payload larger than
\* the threshold, next to a path and a payload the policy accepts
GatePaths == { Path("d1", "x", ".json"), Path("d1", "v", ".mp4") }

GatePayloads == { Bytes("A", 2048), Bytes("G", 3072) }

\* six paths in the order a caller first caches them, and their payload
StatsOrder == << Path("d1", "p1", ".json"), Path("d1", "p2", ".json"),
                 Path("d1", "p3", ".json"), Path("d1", "p4", ".json"),
                 Path("d1", "p5", ".json"), Path("d1", "p6", ".json") >>

StatsPayloads == { Bytes("C", 1024) }

\* two paths, and a payload of ordinary size next to one that is larger than
\* the whole cache
OversizePaths == { Path("d1", "x", ".json"), Path("d1", "y", ".json") }

OversizePayloads == { Bytes("A", 2048), Bytes("A", 9216) }

\* the configurations read from the environment
Configs == { [small_file_threshold |-> 2048, cache_size_limit |-> 4096],
             [small_file_threshold |-> 2048, cache_size_limit |-> 5120] }

\* the configuration used across restarts
RestartConfigs == { [small_file_threshold |-> 2048, cache_size_limit |-> 4096] }

\* the configuration of the insertion scenario
ScenarioConfigs == { [small_file_threshold |-> 1024, cache_size_limit |-> 4096] }

\* file names given to should_cache, each as its pieces: the text before the
\* first inner dot, then one piece for every later dot with the text after it
\* ("a.tar.gz" is <<"a", ".tar", ".gz">>, ".json" is <<".json">>, "a." is
\* <<"a", ".">>)
PolicyNames ==
    { <<"a", ".json">>, <<"a", ".JSON">>, <<"a", ".Json">>, <<"a", ".yaml">>,
      <<"a", ".yml">>, <<"a", ".YML">>, <<"a", ".csv">>, <<"a", ".txt">>,
      <<"a", ".pkl">>, <<"a", ".PKL">>, <<"a", ".mp4">>, <<"a", ".jsonl">>,
      <<"a", ".tar", ".gz">>, <<"a", ".json", ".gz">>, <<"a", ".tar", ".json">>,
      <<".json">>, <<"a">>, <<"json">>, <<"a", ".">> }

\* file sizes given to should_cache
PolicySizes == { 0, 1023, 1024, 1025, 2047, 2048, 2049, 1048576, 1048577 }

\* the configurations should_cache is called under; the last has the default
\* threshold
PolicyConfigs ==
    { [small_file_threshold |-> 1024, cache_size_limit |-> 4096],
      [small_file_threshold |-> 2048, cache_size_limit |-> 4096],
      [small_file_threshold |-> 1048576, cache_size_limit |-> 4096] }

\* the numbers and the unit suffixes of the size strings given to _parse_size;
\* a string is a sequence of characters
SizeNumbers == { 0, 1, 5, 10, 64, 512, 1024, 4096 }

SizeSuffixes ==
    { <<>>, <<"B">>, <<"b">>, <<"K", "B">>, <<"k", "b">>, <<"K", "b">>,
      <<"M", "B">>, <<"m", "b">>, <<"G", "B">>, <<"g", "b">>, <<"G", "b">>,
      <<"T", "B">> }

\* the threads that call into one AIStor, the paths each of them caches (each
\* path once) and the payloads
Threads == { "t1", "t2" }

ThreadPaths(t) ==
    IF t = "t1"
    THEN { Path("d1", "x", ".json"), Path("d1", "z", ".json") }
    ELSE { Path("d1", "y", ".json"), Path("d1", "w", ".json") }

ThreadPayloads == { Bytes("A", 2048) }

\* how many bytes of a payload a failing write leaves in the file
PartialLens(b) == { 0, b.len \div 2 }

-----------------------------------------------------------------------------
(* Pure helpers *)

\* str.lower() on the suffixes in use
Lower(x) ==
    CASE x = ".JSON" -> ".json"
      [] x = ".Json" -> ".json"
      [] x = ".YAML" -> ".yaml"
      [] x = ".YML"  -> ".yml"
      [] x = ".TXT"  -> ".txt"
      [] x = ".PKL"  -> ".pkl"
      [] OTHER       -> x

robotics_extensions == {".json", ".yaml", ".yml", ".csv", ".txt", ".pkl"}

\* Path(file_path).suffix of a name given as its pieces: the text from the last
\* dot on, when that dot is neither the first nor the last character
Suffix(name) ==
    IF Len(name) >= 2 /\ name[Len(name)] # "."
    THEN name[Len(name)]
    ELSE ""

\* Path(file_path) for the name under directory d
PurePath(d, name) ==
    Path(d,
         IF Suffix(name) = "" THEN name ELSE SubSeq(name, 1, Len(name) - 1),
         Suffix(name))

\* a variant that also rejects a file of exactly the threshold size
should_cache_below(threshold, file_path, file_size) ==
    IF file_size >= threshold
    THEN FALSE
    ELSE Lower(file_path.suffix) \in robotics_extensions

\* a variant that compares the suffix as it is written
should_cache_as_written(threshold, file_path, file_size) ==
    IF file_size > threshold
    THEN FALSE
    ELSE file_path.suffix \in robotics_extensions

should_cache(threshold, file_path, file_size) ==
    IF file_size > threshold
    THEN FALSE
    ELSE Lower(file_path.suffix) \in robotics_extensions

\* str(n) for n >= 0
Digit(d) ==
    CASE d = 0 -> "0" [] d = 1 -> "1" [] d = 2 -> "2" [] d = 3 -> "3"
      [] d = 4 -> "4" [] d = 5 -> "5" [] d = 6 -> "6" [] d = 7 -> "7"
      [] d = 8 -> "8" [] d = 9 -> "9"

RECURSIVE Str(_)
Str(n) == IF n < 10 THEN <<Digit(n)>> ELSE Append(Str(n \div 10), Digit(n % 10))

\* str.upper() on the characters in use
Upper(s) ==
    [i \in DOMAIN s |->
        CASE s[i] = "b" -> "B"
          [] s[i] = "k" -> "K"
          [] s[i] = "m" -> "M"
          [] s[i] = "g" -> "G"
          [] s[i] = "t" -> "T"
          [] OTHER      -> s[i]]

\* s.endswith(suffix)
EndsWith(s, suffix) ==
    /\ Len(s) >= Len(suffix)
    /\ SubSeq(s, Len(s) - Len(suffix) + 1, Len(s)) = suffix

Digits == {"0", "1", "2", "3", "4", "5", "6", "7", "8", "9"}

DigitValue(c) == CHOOSE d \in 0 .. 9 : Digit(d) = c

RECURSIVE IntValue(_)
IntValue(s) ==
    IF s = <<>> THEN 0
    ELSE 10 * IntValue(SubSeq(s, 1, Len(s) - 1)) + DigitValue(s[Len(s)])

\* int(s) on digits and letters: <<value>>, or <<>> when it raises ValueError
ParseInt(s) ==
    IF s # <<>> /\ \A i \in DOMAIN s : s[i] \in Digits
    THEN <<IntValue(s)>>
    ELSE <<>>

\* the dict multipliers, in the order its items() are visited
multipliers ==
    << [suffix |-> <<"B">>,      multiplier |-> 1],
       [suffix |-> <<"K", "B">>, multiplier |-> 1024],
       [suffix |-> <<"M", "B">>, multiplier |-> 1024 * 1024],
       [suffix |-> <<"G", "B">>, multiplier |-> 1024 * 1024 * 1024] >>

\* _parse_size: <<bytes>>, or <<>> when int() raises ValueError
parse_size(size_str) ==
    LET upper   == Upper(size_str)
        matches == { i \in DOMAIN multipliers :
                        EndsWith(upper, multipliers[i].suffix) }
    IN  IF matches = {}
        THEN ParseInt(upper)
        ELSE LET i == CHOOSE j \in matches : \A k \in matches : j <= k
                 n == ParseInt(SubSeq(upper, 1,
                                 Len(upper) - Len(multipliers[i].suffix)))
             IN  IF n = <<>> THEN <<>> ELSE <<n[1] * multipliers[i].multiplier>>

\* hashlib.sha256(file_data).hexdigest()[:16]: a 64-bit digest
file_hash(file_data) ==
    CASE file_data = Bytes("A", 2048) -> "h1"
      [] file_data = Bytes("B", 2048) -> "h2"
      [] file_data = Bytes("C", 1024) -> "h3"
      [] file_data = Bytes("E", 1024) -> "h4"
      [] file_data = Bytes("F", 1024) -> "h1"
      [] file_data = Bytes("A", 9216) -> "h5"
      [] file_data = Bytes("B", 10240) -> "h6"
      [] file_data = Bytes("G", 3072) -> "h7"
      [] OTHER                        -> "h0"

\* Path(file_path).name
Name(file_path) == <<file_path.stem, file_path.suffix>>

\* self.small_files_dir / f"{file_hash}_{Path(file_path).name}"
cache_path(file_path, file_data) == <<file_hash(file_data), Name(file_path)>>

FileMetadata(p, sz, h, ac, la, loc) ==
    [file_path |-> p, size |-> sz, hash |-> h, access_count |-> ac,
     last_access |-> la, cache_location |-> loc]

\* dict operations on a sequence of entries keyed by file_path
Keys(mc) == { mc[i].file_path : i \in DOMAIN mc }

Lookup(mc, p) == mc[CHOOSE i \in DOMAIN mc : mc[i].file_path = p]

DictSet(mc, m) ==
    IF m.file_path \in Keys(mc)
    THEN [i \in DOMAIN mc |-> IF mc[i].file_path = m.file_path THEN m ELSE mc[i]]
    ELSE Append(mc, m)

DictDel(mc, p) == SelectSeq(mc, LAMBDA e : e.file_path # p)

\* the file system
Exists(dsk, loc) == loc \in DOMAIN dsk

WriteFile(dsk, loc, data) == [l \in DOMAIN dsk \cup {loc} |-> IF l = loc THEN data ELSE dsk[l]]

Unlink(dsk, loc) == [l \in DOMAIN dsk \ {loc} |-> dsk[l]]

\* the number of bytes of the files of the directory
RECURSIVE StoredBytes(_)
StoredBytes(dsk) ==
    IF DOMAIN dsk = {} THEN 0
    ELSE LET loc == CHOOSE l \in DOMAIN dsk : TRUE
         IN  dsk[loc].len + StoredBytes(Unlink(dsk, loc))

RECURSIVE SumSizes(_)
SumSizes(mc) == IF mc = <<>> THEN 0 ELSE Head(mc).size + SumSizes(Tail(mc))

\* a variant that leaves the items in dict order
unsorted_files(mc) == mc

\* sorted(items, key=last_access): a stable sort
RECURSIVE InsertByLastAccess(_, _)
InsertByLastAccess(s, e) ==
    IF s = <<>> THEN <<e>>
    ELSE IF e.last_access < Head(s).last_access
         THEN <<e>> \o s
         ELSE <<Head(s)>> \o InsertByLastAccess(Tail(s), e)

RECURSIVE sorted_files(_)
sorted_files(mc) ==
    IF mc = <<>> THEN <<>>
    ELSE InsertByLastAccess(sorted_files(SubSeq(mc, 1, Len(mc) - 1)), mc[Len(mc)])

\* a variant that stops the sweep at the limit itself
AtLimit(cur, limit) == cur <= limit

\* a variant that carries the sweep on down to half of the limit
AtHalf(cur, limit) == 2 * cur <= limit

\* current_cache_size <= cache_size_limit * 0.8
AtLowWater(cur, limit) == 5 * cur <= 4 * limit

-----------------------------------------------------------------------------
(* _enforce_cache_limits *)

\* a variant with an if in place of the for: it visits the first entry only
SweepOnce(todo, mc, cur, dsk, limit, evicted, counters, locked) ==
    IF todo = <<>> \/ AtLowWater(cur, limit)
    THEN [mc |-> mc, cur |-> cur, dsk |-> dsk, evicted |-> evicted,
          counters |-> counters, failed |-> <<>>]
    ELSE LET m == Head(todo)
             there == Exists(dsk, m.cache_location)
         IN  [mc |-> DictDel(mc, m.file_path),
              cur |-> IF there THEN cur - m.size ELSE cur,
              dsk |-> IF there THEN Unlink(dsk, m.cache_location) ELSE dsk,
              evicted |-> Append(evicted, m),
              counters |-> Append(counters, cur), failed |-> <<>>]

\* the for loop over sorted_files, from the entries still to visit.  locked is
\* the set of locations whose unlink() raises; the exception leaves the loop
\* at once, and failed is then <<m>> for the entry m it was raised on.
\* counters[i] is current_cache_size as the loop read it on the visit that
\* evicted evicted[i].
RECURSIVE Sweep(_, _, _, _, _, _, _, _)
Sweep(todo, mc, cur, dsk, limit, evicted, counters, locked) ==
    IF todo = <<>> \/ AtLowWater(cur, limit)
    THEN [mc |-> mc, cur |-> cur, dsk |-> dsk, evicted |-> evicted,
          counters |-> counters, failed |-> <<>>]
    ELSE LET m == Head(todo)
             there == Exists(dsk, m.cache_location)
         IN  IF there /\ m.cache_location \in locked
             THEN [mc |-> mc, cur |-> cur, dsk |-> dsk, evicted |-> evicted,
                   counters |-> counters, failed |-> <<m>>]
             ELSE Sweep(Tail(todo),
                        DictDel(mc, m.file_path),
                        IF there THEN cur - m.size ELSE cur,
                        IF there THEN Unlink(dsk, m.cache_location) ELSE dsk,
                        limit,
                        Append(evicted, m),
                        Append(counters, cur),
                        locked)

\* a variant whose first comparison is flipped
enforce_cache_limits_flipped(mc, cur, dsk, limit, locked) ==
    IF cur > limit
    THEN [mc |-> mc, cur |-> cur, dsk |-> dsk, evicted |-> <<>>,
          counters |-> <<>>, failed |-> <<>>]
    ELSE Sweep(sorted_files(mc), mc, cur, dsk, limit, <<>>, <<>>, locked)

\* a variant that also sweeps when the counter equals the limit
enforce_cache_limits_strict(mc, cur, dsk, limit, locked) ==
    IF cur < limit
    THEN [mc |-> mc, cur |-> cur, dsk |-> dsk, evicted |-> <<>>,
          counters |-> <<>>, failed |-> <<>>]
    ELSE Sweep(sorted_files(mc), mc, cur, dsk, limit, <<>>, <<>>, locked)

enforce_cache_limits(mc, cur, dsk, limit, locked) ==
    IF cur <= limit
    THEN [mc |-> mc, cur |-> cur, dsk |-> dsk, evicted |-> <<>>,
          counters |-> <<>>, failed |-> <<>>]
    ELSE Sweep(sorted_files(mc), mc, cur, dsk, limit, <<>>, <<>>, locked)

-----------------------------------------------------------------------------
(* cache_file and get_cached_file as functions of the state they read *)

\* failed is <<>> when the call returns ret, and <<m>> when the unlink() of
\* entry m raised out of it
cache_file(mc, cur, dsk, limit, file_path, file_data, t, locked) ==
    LET loc  == cache_path(file_path, file_data)
        dsk1 == WriteFile(dsk, loc, file_data)
        m    == FileMetadata(file_path, file_data.len, file_hash(file_data), 1, t, loc)
        mc1  == DictSet(mc, m)
        cur1 == cur + file_data.len
        r    == enforce_cache_limits(mc1, cur1, dsk1, limit, locked)
    IN  [mc |-> r.mc, cur |-> r.cur, dsk |-> r.dsk, evicted |-> r.evicted,
         counters |-> r.counters, pre_sweep |-> cur1, ret |-> loc,
         failed |-> r.failed]

\* a variant that reports the miss but keeps the stale entry
get_cached_file_keep_stale(mc, dsk, file_path, t) ==
    IF file_path \notin Keys(mc)
    THEN [mc |-> mc, ret |-> <<>>]
    ELSE LET m == Lookup(mc, file_path)
         IN  IF ~Exists(dsk, m.cache_location)
             THEN [mc |-> mc, ret |-> <<>>]
             ELSE [mc  |-> DictSet(mc, [m EXCEPT !.access_count = @ + 1,
                                                 !.last_access = t]),
                   ret |-> <<dsk[m.cache_location]>>]

\* a variant whose hit counts the access but leaves last_access as it was
get_cached_file_untimed(mc, dsk, file_path, t) ==
    IF file_path \notin Keys(mc)
    THEN [mc |-> mc, ret |-> <<>>]
    ELSE LET m == Lookup(mc, file_path)
         IN  IF ~Exists(dsk, m.cache_location)
             THEN [mc |-> DictDel(mc, file_path), ret |-> <<>>]
             ELSE [mc  |-> DictSet(mc, [m EXCEPT !.access_count = @ + 1]),
                   ret |-> <<dsk[m.cache_location]>>]

\* a variant whose hit also sets size to the length of the bytes it has read
get_cached_file_resized(mc, dsk, file_path, t) ==
    IF file_path \notin Keys(mc)
    THEN [mc |-> mc, ret |-> <<>>]
    ELSE LET m == Lookup(mc, file_path)
         IN  IF ~Exists(dsk, m.cache_location)
             THEN [mc |-> DictDel(mc, file_path), ret |-> <<>>]
             ELSE [mc  |-> DictSet(mc, [m EXCEPT !.access_count = @ + 1,
                                                 !.last_access = t,
                                                 !.size = dsk[m.cache_location].len]),
                   ret |-> <<dsk[m.cache_location]>>]

\* a variant whose lookup of an absent path leaves an empty entry behind, as
\* a lookup in a defaultdict would
get_cached_file_defaulting(mc, dsk, file_path, t) ==
    IF file_path \notin Keys(mc)
    THEN [mc  |-> Append(mc, FileMetadata(file_path, 0, "", 0, t, <<>>)),
          ret |-> <<>>]
    ELSE LET m == Lookup(mc, file_path)
         IN  IF ~Exists(dsk, m.cache_location)
             THEN [mc |-> DictDel(mc, file_path), ret |-> <<>>]
             ELSE [mc  |-> DictSet(mc, [m EXCEPT !.access_count = @ + 1,
                                                 !.last_access = t]),
                   ret |-> <<dsk[m.cache_location]>>]

\* the return value is <<>> for None and <<data>> for bytes
get_cached_file(mc, dsk, file_path, t) ==
    IF file_path \notin Keys(mc)
    THEN [mc |-> mc, ret |-> <<>>]
    ELSE LET m == Lookup(mc, file_path)
         IN  IF ~Exists(dsk, m.cache_location)
             THEN [mc |-> DictDel(mc, file_path), ret |-> <<>>]
             ELSE [mc  |-> DictSet(mc, [m EXCEPT !.access_count = @ + 1,
                                                 !.last_access = t]),
                   ret |-> <<dsk[m.cache_location]>>]

\* round(n / den, 2) in hundredths, ties to even as Python's round
Round2(n, den) ==
    LET q == (100 * n) \div den
        r == (100 * n) % den
    IN  IF 2 * r > den \/ (2 * r = den /\ q % 2 = 1) THEN q + 1 ELSE q

\* round(n / den * 100, 1) in tenths
Round1(n, den) ==
    LET q == (1000 * n) \div den
        r == (1000 * n) % den
    IN  IF 2 * r > den \/ (2 * r = den /\ q % 2 = 1) THEN q + 1 ELSE q

\* a variant that puts an entry before the entries of the same access_count
RECURSIVE InsertTiesFirst(_, _)
InsertTiesFirst(s, e) ==
    IF s = <<>> THEN <<e>>
    ELSE IF e.access_count >= Head(s).access_count
         THEN <<e>> \o s
         ELSE <<Head(s)>> \o InsertTiesFirst(Tail(s), e)

\* sorted(items, key=access_count, reverse=True): a stable sort
RECURSIVE InsertByAccessCount(_, _)
InsertByAccessCount(s, e) ==
    IF s = <<>> THEN <<e>>
    ELSE IF e.access_count > Head(s).access_count
         THEN <<e>> \o s
         ELSE <<Head(s)>> \o InsertByAccessCount(Tail(s), e)

RECURSIVE sorted_by_access_count(_)
sorted_by_access_count(mc) ==
    IF mc = <<>> THEN <<>>
    ELSE InsertByAccessCount(sorted_by_access_count(SubSeq(mc, 1, Len(mc) - 1)),
                             mc[Len(mc)])

\* get_cache_stats: sizes in hundredths of a megabyte and of a kilobyte, the
\* utilization in tenths of a percent
get_cache_stats(mc, cur, limit) ==
    LET top == sorted_by_access_count(mc)
    IN  [total_cached_files    |-> Len(mc),
         current_cache_size_mb |-> Round2(cur, 1024 * 1024),
         cache_limit_mb        |-> Round2(limit, 1024 * 1024),
         cache_utilization     |-> Round1(cur, limit),
         avg_file_size_kb      |-> IF Len(mc) > 0
                                   THEN Round2(cur, Len(mc) * 1024)
                                   ELSE 0,
         most_accessed_files   |->
             [i \in 1 .. (IF Len(top) < 5 THEN Len(top) ELSE 5) |->
                 <<top[i].file_path, top[i].access_count>>]]

-----------------------------------------------------------------------------
(* The state machine *)

NoCall == [op |-> "init"]

\* a thread that is not inside a call; used holds the paths it has cached
Idle(used) == [pc |-> "idle", used |-> used]

\* a new AIStor() over an empty /cache, configured from CS
InitIn(CS) ==
    /\ \E c \in CS :
          /\ small_file_threshold = c.small_file_threshold
          /\ cache_size_limit = c.cache_size_limit
    /\ metadata_cache = <<>>
    /\ current_cache_size = 0
    /\ small_files_dir = <<>>
    /\ metadata_file = <<>>
    /\ now = 0
    /\ last = NoCall
    /\ scenario = <<>>
    /\ threads = [t \in Threads |-> Idle({})]

Init == InitIn(Configs)

InitScenario == InitIn(ScenarioConfigs)

InitRestart == InitIn(RestartConfigs)

Config == <<small_file_threshold, cache_size_limit>>

\* a call of cache_file(p, b) that returns, made at time t
CacheFileCall(p, b, t) ==
    LET r == cache_file(metadata_cache, current_cache_size, small_files_dir,
                        cache_size_limit, p, b, t, {})
    IN  /\ metadata_cache' = r.mc
        /\ current_cache_size' = r.cur
        /\ small_files_dir' = r.dsk
        /\ last' = [op |-> "cache_file", file_path |-> p, file_data |-> b,
                    ret |-> r.ret, pre_sweep |-> r.pre_sweep,
                    evicted |-> r.evicted, counters |-> r.counters]
        /\ UNCHANGED <<Config, metadata_file>>

CacheFileIn(PS, BS) ==
    \E p \in PS, b \in BS :
        CacheFileCall(p, b, now) /\ UNCHANGED <<now, scenario, threads>>

\* a call of cache_file(p, b) whose write raises after k bytes: open(..., 'wb')
\* has created or truncated the file, the exception leaves cache_file
CacheFileWriteFailed ==
    \E p \in FaultPaths, b \in FaultPayloads :
        \E k \in PartialLens(b) :
            /\ small_files_dir' = WriteFile(small_files_dir, cache_path(p, b),
                                            Bytes(b.id, k))
            /\ last' = [op |-> "cache_file_failed", file_path |-> p,
                        file_data |-> b]
            /\ UNCHANGED <<Config, metadata_cache, current_cache_size,
                           metadata_file, now, scenario, threads>>

\* a call of cache_file(p, b) during which the files of locked cannot be
\* unlinked, and whose eviction sweep comes to one of them: the exception of
\* unlink() leaves _enforce_cache_limits and cache_file
CacheFileUnlinkFailed ==
    \E p \in UnlinkPaths, b \in UnlinkPayloads :
        \E loc \in DOMAIN small_files_dir \cup {cache_path(p, b)} :
            LET r == cache_file(metadata_cache, current_cache_size,
                                small_files_dir, cache_size_limit, p, b, now,
                                {loc})
            IN  /\ r.pre_sweep <= MaxCounter
                /\ r.failed # <<>>
                /\ metadata_cache' = r.mc
                /\ current_cache_size' = r.cur
                /\ small_files_dir' = r.dsk
                /\ last' = [op |-> "cache_file_unlink_failed", file_path |-> p,
                            file_data |-> b, pre_sweep |-> r.pre_sweep,
                            evicted |-> r.evicted, failed |-> r.failed[1]]
                /\ UNCHANGED <<Config, metadata_file, now, scenario, threads>>

\* a call of should_cache(file_path, file_size)
ShouldCache ==
    \E name \in PolicyNames, file_size \in PolicySizes :
        /\ last' = [op |-> "should_cache", name |-> name,
                    file_size |-> file_size,
                    ret |-> should_cache(small_file_threshold,
                                         PurePath("d1", name), file_size)]
        /\ UNCHANGED <<Config, metadata_cache, current_cache_size,
                       small_files_dir, metadata_file, now, scenario, threads>>

\* a call of _parse_size(str(n) + suffix)
ParseSize ==
    \E n \in SizeNumbers, suffix \in SizeSuffixes :
        /\ last' = [op |-> "parse_size", n |-> n, suffix |-> suffix,
                    ret |-> parse_size(Str(n) \o suffix)]
        /\ UNCHANGED <<Config, metadata_cache, current_cache_size,
                       small_files_dir, metadata_file, now, scenario, threads>>

\* a variant that leaves the index in the order of the statistics
GetCacheStats_reordering ==
    /\ metadata_cache' = sorted_by_access_count(metadata_cache)
    /\ last' = [op  |-> "get_cache_stats",
                ret |-> get_cache_stats(metadata_cache, current_cache_size,
                                        cache_size_limit)]
    /\ UNCHANGED <<Config, current_cache_size, small_files_dir,
                   metadata_file, now, scenario, threads>>

\* a call of get_cache_stats()
GetCacheStats ==
    /\ last' = [op  |-> "get_cache_stats",
                ret |-> get_cache_stats(metadata_cache, current_cache_size,
                                        cache_size_limit)]
    /\ UNCHANGED <<Config, metadata_cache, current_cache_size, small_files_dir,
                   metadata_file, now, scenario, threads>>

\* a call of get_cached_file(p); hits are counted up to MaxAccess
GetCachedFileIn(PS) ==
    \E p \in PS :
        LET r      == get_cached_file(metadata_cache, small_files_dir, p, now)
            cached == p \in Keys(metadata_cache)
            exists == /\ cached
                      /\ Exists(small_files_dir,
                                Lookup(metadata_cache, p).cache_location)
        IN  /\ exists => Lookup(metadata_cache, p).access_count < MaxAccess
            /\ metadata_cache' = r.mc
            /\ last' = [op |-> "get_cached_file", file_path |-> p, ret |-> r.ret,
                        pre_cached |-> cached, pre_exists |-> exists]
            /\ UNCHANGED <<Config, current_cache_size, small_files_dir,
                           metadata_file, now, scenario, threads>>

\* time passes
Tick ==
    /\ now < MaxTime
    /\ now' = now + 1
    /\ last' = [op |-> "tick"]
    /\ UNCHANGED <<Config, metadata_cache, current_cache_size, small_files_dir,
                   metadata_file, scenario, threads>>

\* a file of the small-files directory is removed by something else
ExternalDelete ==
    \E loc \in DOMAIN small_files_dir :
        /\ small_files_dir' = Unlink(small_files_dir, loc)
        /\ last' = [op |-> "external_delete", loc |-> loc]
        /\ UNCHANGED <<Config, metadata_cache, current_cache_size,
                       metadata_file, now, scenario, threads>>

\* json.dump({k: asdict(v) ...}) and {k: FileMetadata(**v) ...}
Dump(mc) ==
    [i \in DOMAIN mc |->
        [key   |-> mc[i].file_path,
         value |-> [file_path |-> mc[i].file_path, size |-> mc[i].size,
                    hash |-> mc[i].hash, access_count |-> mc[i].access_count,
                    last_access |-> mc[i].last_access,
                    cache_location |-> mc[i].cache_location]]]

\* a variant that restores every entry with the statistics of a new one
Load_new_statistics(data) ==
    [i \in DOMAIN data |->
        LET v == data[i].value
        IN  [key   |-> data[i].key,
             value |-> FileMetadata(v.file_path, v.size, v.hash, 1, 0,
                                    v.cache_location)]]

\* the fields of FileMetadata; cache_location has the default None
FileMetadataFields ==
    {"file_path", "size", "hash", "access_count", "last_access", "cache_location"}

RequiredFields == FileMetadataFields \ {"cache_location"}

\* FileMetadata(**v) returns: a keyword that is no field, or a field without a
\* default that is not given, raises TypeError
Constructs(v) ==
    DOMAIN v \subseteq FileMetadataFields /\ RequiredFields \subseteq DOMAIN v

\* {k: FileMetadata(**v) for k, v in data.items()} when no record raises
Load(data) ==
    [i \in DOMAIN data |->
        LET v == data[i].value
        IN  [key   |-> data[i].key,
             value |-> FileMetadata(v.file_path, v.size, v.hash, v.access_count,
                                    v.last_access,
                                    IF "cache_location" \in DOMAIN v
                                    THEN v.cache_location ELSE <<>>)]]

\* one pass of monitor_loop: the metadata is written to the snapshot file
Persist ==
    /\ metadata_file' = <<Dump(metadata_cache)>>
    /\ last' = [op |-> "persist"]
    /\ UNCHANGED <<Config, metadata_cache, current_cache_size, small_files_dir,
                   now, scenario, threads>>

\* the process is killed inside json.dump: open(..., 'w') has truncated the
\* snapshot file and the first k records have been written to it
PersistKilled ==
    \E k \in 0 .. Len(metadata_cache) :
        /\ metadata_file' = <<SubSeq(Dump(metadata_cache), 1, k), "cut">>
        /\ last' = [op |-> "killed"]
        /\ UNCHANGED <<Config, metadata_cache, current_cache_size,
                       small_files_dir, now, scenario, threads>>

\* json.load raises JSONDecodeError on a file that is cut short
Malformed(file) == Len(file) = 2

\* the dict comprehension of _initialize_cache raises TypeError on the first
\* record FileMetadata cannot be built from
Unbuildable(file) ==
    Len(file) = 1 /\ \E i \in DOMAIN file[1] : ~Constructs(file[1][i].value)

\* an exception leaves _initialize_cache
InitRaises(file) == Malformed(file) \/ Unbuildable(file)

\* the value of self.metadata_cache after _initialize_cache: when json.load
\* or FileMetadata raises it is still the {} of __init__
initialize_cache(file) ==
    IF file = <<>> \/ InitRaises(file)
    THEN <<>>
    ELSE LET d == Load(file[1]) IN [i \in DOMAIN d |-> d[i].value]

\* the process ends and a new AIStor() is constructed over the same /cache;
\* an exception of _initialize_cache leaves __init__, and no AIStor is built
Restart ==
    /\ metadata_cache' = initialize_cache(metadata_file)
    /\ current_cache_size' = 0
    /\ last' = [op |-> IF InitRaises(metadata_file) THEN "init_raised"
                                                    ELSE "restart"]
    /\ UNCHANGED <<Config, small_files_dir, metadata_file, now, scenario, threads>>

\* the snapshot file is written by a writer of another version of the format:
\* the records of the index, one of them with an extra field or without one of
\* the required fields
WithExtraField(v) == v @@ [schema_version |-> 2]

WithoutField(v, f) == [g \in DOMAIN v \ {f} |-> v[g]]

ForeignSnapshot ==
    \E i \in DOMAIN metadata_cache :
        \E v \in { WithExtraField(Dump(metadata_cache)[i].value),
                    WithoutField(Dump(metadata_cache)[i].value, "hash") } :
            /\ metadata_file' =
                  <<[Dump(metadata_cache) EXCEPT ![i] = [key |-> @.key, value |-> v]]>>
            /\ last' = [op |-> "foreign_snapshot"]
            /\ UNCHANGED <<Config, metadata_cache, current_cache_size,
                           small_files_dir, now, scenario, threads>>

\* there is a process with an AIStor to call
Alive == last.op \notin {"killed", "init_raised"}

\* the insertion scenario: distinct paths cached one after another, each at a
\* later time than the one before
ScenarioInsert ==
    \E p \in ScenarioPaths, b \in ScenarioPayloads :
        /\ \A i \in DOMAIN scenario : scenario[i] # p
        /\ now' = now + 1
        /\ CacheFileCall(p, b, now + 1)
        /\ scenario' = Append(scenario, p)
        /\ UNCHANGED threads

-----------------------------------------------------------------------------
(* Calls made by several threads.  The methods take no lock, so a thread can  *)
(* be preempted between any two statements, and inside += and -= between the  *)
(* read and the write of self.current_cache_size.  A step below is the        *)
(* statements named in its comment; a call in flight is recorded in threads.  *)

ThreadFrame == <<Config, metadata_file, now, last, scenario>>

\* cache_file lines 87-102: the file is written and the metadata is built
CacheFileBegin(t) ==
    /\ threads[t].pc = "idle"
    /\ \E p \in ThreadPaths(t) \ threads[t].used, b \in ThreadPayloads :
          /\ small_files_dir' = WriteFile(small_files_dir, cache_path(p, b), b)
          /\ threads' = [threads EXCEPT ![t] =
                [pc |-> "insert", used |-> @.used \cup {p},
                 metadata |-> FileMetadata(p, b.len, file_hash(b), 1, now,
                                           cache_path(p, b))]]
    /\ UNCHANGED <<ThreadFrame, metadata_cache, current_cache_size>>

\* line 104: self.metadata_cache[file_path] = metadata
CacheFileInsert(t) ==
    /\ threads[t].pc = "insert"
    /\ metadata_cache' = DictSet(metadata_cache, threads[t].metadata)
    /\ threads' = [threads EXCEPT ![t].pc = "load"]
    /\ UNCHANGED <<ThreadFrame, current_cache_size, small_files_dir>>

\* line 105, the read of self.current_cache_size += len(file_data)
CacheFileLoad(t) ==
    /\ threads[t].pc = "load"
    /\ threads' = [threads EXCEPT ![t] =
          [pc |-> "store", used |-> @.used, metadata |-> @.metadata,
           read |-> current_cache_size]]
    /\ UNCHANGED <<ThreadFrame, metadata_cache, current_cache_size,
                   small_files_dir>>

\* line 105, the write
CacheFileStore(t) ==
    /\ threads[t].pc = "store"
    /\ current_cache_size' = threads[t].read + threads[t].metadata.size
    /\ threads' = [threads EXCEPT ![t] = [pc |-> "enforce", used |-> @.used]]
    /\ UNCHANGED <<ThreadFrame, metadata_cache, small_files_dir>>

\* _enforce_cache_limits lines 138-145: the test against the limit and the
\* sorted copy of the items
EnforceBegin(t) ==
    /\ threads[t].pc = "enforce"
    /\ threads' = [threads EXCEPT ![t] =
          IF current_cache_size <= cache_size_limit
          THEN Idle(@.used)
          ELSE [pc |-> "sweep", used |-> @.used,
                sorted_files |-> sorted_files(metadata_cache)]]
    /\ UNCHANGED <<ThreadFrame, metadata_cache, current_cache_size,
                   small_files_dir>>

\* lines 147-155: the low-water test, exists(), unlink() and the read of
\* self.current_cache_size -= metadata.size
SweepVisit(t) ==
    /\ threads[t].pc = "sweep"
    /\ LET todo == threads[t].sorted_files
       IN  IF todo = <<>> \/ AtLowWater(current_cache_size, cache_size_limit)
           THEN /\ threads' = [threads EXCEPT ![t] = Idle(@.used)]
                /\ UNCHANGED small_files_dir
           ELSE IF Exists(small_files_dir, Head(todo).cache_location)
           THEN /\ small_files_dir' =
                      Unlink(small_files_dir, Head(todo).cache_location)
                /\ threads' = [threads EXCEPT ![t] =
                      [pc |-> "sweep_store", used |-> @.used,
                       sorted_files |-> todo, read |-> current_cache_size]]
           ELSE /\ threads' = [threads EXCEPT ![t].pc = "sweep_del"]
                /\ UNCHANGED small_files_dir
    /\ UNCHANGED <<ThreadFrame, metadata_cache, current_cache_size>>

\* line 155, the write
SweepStore(t) ==
    /\ threads[t].pc = "sweep_store"
    /\ current_cache_size' =
          threads[t].read - Head(threads[t].sorted_files).size
    /\ threads' = [threads EXCEPT ![t] =
          [pc |-> "sweep_del", used |-> @.used,
           sorted_files |-> @.sorted_files]]
    /\ UNCHANGED <<ThreadFrame, metadata_cache, small_files_dir>>

\* line 157: del self.metadata_cache[file_path], which raises KeyError out of
\* the call when another thread has removed the entry
SweepDel(t) ==
    /\ threads[t].pc = "sweep_del"
    /\ LET file_path == Head(threads[t].sorted_files).file_path
       IN  IF file_path \in Keys(metadata_cache)
           THEN /\ metadata_cache' = DictDel(metadata_cache, file_path)
                /\ threads' = [threads EXCEPT ![t] =
                      [pc |-> "sweep", used |-> @.used,
                       sorted_files |-> Tail(@.sorted_files)]]
           ELSE /\ threads' = [threads EXCEPT ![t] = Idle(@.used)]
                /\ UNCHANGED metadata_cache
    /\ UNCHANGED <<ThreadFrame, current_cache_size, small_files_dir>>

\* get_cached_file lines 115-121 for a path of the index: the entry is looked
\* up and its file is tested with exists()
GetCachedFileBegin(t) ==
    /\ threads[t].pc = "idle"
    /\ \E p \in Keys(metadata_cache) :
          LET metadata == Lookup(metadata_cache, p)
          IN  /\ metadata.access_count < MaxAccess
              /\ threads' = [threads EXCEPT ![t] =
                    [pc |-> "found", used |-> @.used, file_path |-> p,
                     exists |-> Exists(small_files_dir,
                                       metadata.cache_location)]]
    /\ UNCHANGED <<ThreadFrame, metadata_cache, current_cache_size,
                   small_files_dir>>

\* lines 123-131: without the file, del self.metadata_cache[file_path] (a
\* KeyError when the entry is gone); with it, the statistics of the entry
\* object are updated and the file is read
GetCachedFileEnd(t) ==
    /\ threads[t].pc = "found"
    /\ LET file_path == threads[t].file_path
       IN  metadata_cache' =
             IF file_path \notin Keys(metadata_cache)
             THEN metadata_cache
             ELSE IF ~threads[t].exists
             THEN DictDel(metadata_cache, file_path)
             ELSE DictSet(metadata_cache,
                          [Lookup(metadata_cache, file_path)
                              EXCEPT !.access_count = @ + 1,
                                     !.last_access = now])
    /\ threads' = [threads EXCEPT ![t] = Idle(@.used)]
    /\ UNCHANGED <<ThreadFrame, current_cache_size, small_files_dir>>

ThreadStep(t) ==
    \/ CacheFileBegin(t) \/ CacheFileInsert(t) \/ CacheFileLoad(t)
    \/ CacheFileStore(t) \/ EnforceBegin(t) \/ SweepVisit(t)
    \/ SweepStore(t) \/ SweepDel(t)
    \/ GetCachedFileBegin(t) \/ GetCachedFileEnd(t)

NextThreads == \E t \in Threads : ThreadStep(t)

SpecThreads == InitRestart /\ [][NextThreads]_vars

-----------------------------------------------------------------------------
(* monitor_loop on a thread of its own, next to a thread that calls           *)
(* cache_file and get_cached_file.  The dict comprehension of lines 196-197   *)
(* walks self.metadata_cache.items() entry by entry and can be preempted      *)
(* between two entries; the walk raises RuntimeError (dictionary changed size *)
(* during iteration) when the number of keys is not the one it started with.  *)
(* The calls of the other thread are taken whole here, and those that evict   *)
(* are taken only while no walk is in flight.                                 *)

\* the thread that runs monitor_loop
Monitor == "t2"

Walking == threads[Monitor].pc = "copy"

\* the values the index has had since the walk in flight began, as dumps
Instants(mc) ==
    [threads EXCEPT ![Monitor] =
        IF Walking THEN [@ EXCEPT !.instants = @ \cup {Dump(mc)}] ELSE @]

\* line 195: open(metadata_file, 'w') truncates the snapshot file; the walk
\* over the items begins
MonitorBegin ==
    /\ threads[Monitor].pc = "idle"
    /\ metadata_file' = <<<<>>, "cut">>
    /\ threads' = [threads EXCEPT ![Monitor] =
          [pc |-> "copy", used |-> @.used, size |-> Len(metadata_cache),
           pos |-> 0, copied |-> <<>>, instants |-> {Dump(metadata_cache)}]]
    /\ last' = [op |-> "persist_begin"]
    /\ UNCHANGED <<Config, metadata_cache, current_cache_size, small_files_dir,
                   now, scenario>>

\* lines 196-198, one step of the walk: RuntimeError when the size of the dict
\* has changed (caught at line 205, the file stays as open() left it);
\* otherwise asdict() of the next entry, or, after the last one, json.dump of
\* the copies
MonitorCopy ==
    /\ Walking
    /\ LET m == threads[Monitor]
       IN  IF Len(metadata_cache) # m.size
           THEN /\ threads' = [threads EXCEPT ![Monitor] = Idle(@.used)]
                /\ last' = [op |-> "persist_failed"]
                /\ UNCHANGED metadata_file
           ELSE IF m.pos < m.size
           THEN /\ threads' = [threads EXCEPT ![Monitor] =
                      [@ EXCEPT !.pos = @ + 1,
                                !.copied = Append(@, Dump(metadata_cache)[m.pos + 1])]]
                /\ UNCHANGED <<last, metadata_file>>
           ELSE /\ threads' = [threads EXCEPT ![Monitor] = Idle(@.used)]
                /\ metadata_file' = <<m.copied>>
                /\ last' = [op |-> "persist_done", instants |-> m.instants]
    /\ UNCHANGED <<Config, metadata_cache, current_cache_size, small_files_dir,
                   now, scenario>>

\* a call of cache_file(p, b) by the other thread
CacheFileP ==
    \E p \in RestartPaths, b \in RestartPayloads :
        /\ CacheFileCall(p, b, now)
        /\ Walking => last'.evicted = <<>>
        /\ threads' = Instants(metadata_cache')
        /\ UNCHANGED <<now, scenario>>

\* a call of get_cached_file(p) by the other thread
GetCachedFileP ==
    \E p \in RestartPaths :
        LET r == get_cached_file(metadata_cache, small_files_dir, p, now)
        IN  /\ p \in Keys(metadata_cache)
            /\ Lookup(metadata_cache, p).access_count < MaxAccess
            /\ Walking => Len(r.mc) = Len(metadata_cache)
            /\ metadata_cache' = r.mc
            /\ last' = [op |-> "get_cached_file", file_path |-> p, ret |-> r.ret]
            /\ threads' = Instants(r.mc)
            /\ UNCHANGED <<Config, current_cache_size, small_files_dir,
                           metadata_file, now, scenario>>

NextSnapshot == MonitorBegin \/ MonitorCopy \/ CacheFileP \/ GetCachedFileP

SpecSnapshot == InitRestart /\ [][NextSnapshot]_vars

-----------------------------------------------------------------------------
(* The specifications of calls made one at a time *)

CacheFile == CacheFileIn(Paths, Payloads)

GetCachedFile == GetCachedFileIn(Paths)

NextCore == CacheFile \/ GetCachedFile \/ Tick

SpecCore == Init /\ [][NextCore]_vars

Next == NextCore \/ ExternalDelete

Spec == Init /\ [][Next]_vars

CacheFileR == CacheFileIn(RestartPaths, RestartPayloads)

GetCachedFileR == GetCachedFileIn(RestartPaths)

NextRestart == CacheFileR \/ GetCachedFileR \/ Tick \/ ExternalDelete \/ Persist \/ Restart

SpecRestart == InitRestart /\ [][NextRestart]_vars

CacheFileF == CacheFileIn(FaultPaths, FaultPayloads)

GetCachedFileF == GetCachedFileIn(FaultPaths)

NextFaults == CacheFileF \/ GetCachedFileF \/ Tick \/ CacheFileWriteFailed

SpecFaults == Init /\ [][NextFaults]_vars

CacheFileS == Alive /\ CacheFileIn(RestartPaths, RestartPayloads)

GetCachedFileS == Alive /\ GetCachedFileIn(RestartPaths)

PersistS == Alive /\ Persist

PersistKilledS == Alive /\ PersistKilled

NextStartup ==
    CacheFileS \/ GetCachedFileS \/ Tick \/ PersistS \/ PersistKilledS \/ Restart

SpecStartup == InitRestart /\ [][NextStartup]_vars

ForeignSnapshotS == Alive /\ ForeignSnapshot

NextCompat == CacheFileS \/ Tick \/ PersistS \/ ForeignSnapshotS \/ Restart

SpecCompat == InitRestart /\ [][NextCompat]_vars

CacheFileU == CacheFileIn(UnlinkPaths, UnlinkPayloads)

GetCachedFileU == GetCachedFileIn(UnlinkPaths)

NextUnlink == CacheFileU \/ GetCachedFileU \/ Tick \/ CacheFileUnlinkFailed

SpecUnlink == InitRestart /\ [][NextUnlink]_vars

CacheFileC == CacheFileIn(CollidePaths, CollidePayloads)

GetCachedFileC == GetCachedFileIn(CollidePaths)

NextCollide == CacheFileC \/ GetCachedFileC \/ Tick

SpecCollide == InitRestart /\ [][NextCollide]_vars

\* the callers' paths with one payload, under both configurations
CacheFileW == CacheFileIn(Paths, RestartPayloads)

GetCachedFileW == GetCachedFileIn(Paths)

NextSweep == CacheFileW \/ GetCachedFileW \/ Tick

SpecSweep == Init /\ [][NextSweep]_vars

CacheFileG == CacheFileIn(GatePaths, GatePayloads)

GetCachedFileG == GetCachedFileIn(GatePaths)

NextGate == CacheFileG \/ GetCachedFileG \/ Tick

SpecGate == InitRestart /\ [][NextGate]_vars

InitReload == InitIn(ReloadConfigs)

CacheFileL == CacheFileIn(ReloadPaths, ReloadPayloads)

GetCachedFileL == GetCachedFileIn(ReloadPaths)

NextReload == CacheFileL \/ GetCachedFileL \/ Persist \/ Restart

SpecReload == InitReload /\ [][NextReload]_vars

NextStats == CacheFileF \/ GetCachedFileF \/ Tick \/ GetCacheStats

SpecStats == Init /\ [][NextStats]_vars

\* a caller that caches the paths of StatsOrder, a path for the first time
\* only after the ones before it, and reads the statistics
CacheFileT ==
    \E i \in DOMAIN StatsOrder, b \in StatsPayloads :
        /\ \A j \in 1 .. i - 1 : StatsOrder[j] \in Keys(metadata_cache)
        /\ CacheFileCall(StatsOrder[i], b, now)
        /\ UNCHANGED <<now, scenario, threads>>

GetCachedFileT == GetCachedFileIn({ StatsOrder[i] : i \in DOMAIN StatsOrder })

NextTop == CacheFileT \/ GetCachedFileT \/ GetCacheStats

SpecTop == InitReload /\ [][NextTop]_vars

CacheFileO == CacheFileIn(OversizePaths, OversizePayloads)

GetCachedFileO == GetCachedFileIn(OversizePaths)

NextOversize == CacheFileO \/ GetCachedFileO \/ Tick \/ ExternalDelete

SpecOversize == InitRestart /\ [][NextOversize]_vars

InitPolicy == InitIn(PolicyConfigs)

NextPolicy == ShouldCache \/ ParseSize

SpecPolicy == InitPolicy /\ [][NextPolicy]_vars

NextScenario == ScenarioInsert

SpecScenario == InitScenario /\ [][NextScenario]_vars

-----------------------------------------------------------------------------
(* Properties *)

Entries(mc) == { mc[i] : i \in DOMAIN mc }

\* C1: right after cache_file(p, b) has returned, with should_cache(p, len(b))
\* true, get_cached_file(p) returns exactly b, whatever calls came before.
C1_RoundTrip ==
    (/\ last.op = "cache_file"
     /\ should_cache(small_file_threshold, last.file_path, last.file_data.len))
    => get_cached_file(metadata_cache, small_files_dir, last.file_path, now).ret
           = <<last.file_data>>

\* C2: current_cache_size is the sum of the sizes of the entries of
\* metadata_cache, and get_cache_stats reports the number of entries and that
\* sum, after any sequence of cache_file and get_cached_file calls.
C2_SumInvariant ==
    LET stats == get_cache_stats(metadata_cache, current_cache_size,
                                 cache_size_limit)
    IN  /\ current_cache_size = SumSizes(metadata_cache)
        /\ stats.total_cached_files = Cardinality(Keys(metadata_cache))
        /\ stats.current_cache_size_mb = Round2(SumSizes(metadata_cache), 1048576)

\* C3: when _enforce_cache_limits has run with current_cache_size over the
\* limit, it ends with current_cache_size <= 0.8 * cache_size_limit or with an
\* empty index.
C3_EvictionConvergence ==
    (last.op = "cache_file" /\ last.pre_sweep > cache_size_limit)
    => \/ 10 * current_cache_size <= 8 * cache_size_limit
       \/ metadata_cache = <<>>

C3_Witness ==
    /\ last.op = "cache_file"
    /\ last.pre_sweep > cache_size_limit
    /\ last.evicted # <<>>
    /\ metadata_cache # <<>>
    /\ 10 * current_cache_size <= 8 * cache_size_limit

\* C4: once cache_file has returned, current_cache_size <= cache_size_limit
\* unless eviction has emptied the index.
C4_CapacityAtRest ==
    last.op = "cache_file"
    => \/ current_cache_size <= cache_size_limit
       \/ metadata_cache = <<>>

C4_Witness ==
    /\ last.op = "cache_file"
    /\ last.pre_sweep > cache_size_limit
    /\ metadata_cache # <<>>
    /\ current_cache_size = SumSizes(metadata_cache)
    /\ current_cache_size <= cache_size_limit

\* C5: eviction removes entries in ascending last_access order and leaves no
\* entry that is strictly older than one it removed, so with pairwise distinct
\* last_access the removed entries are a prefix of the ascending order; a hit
\* on p leaves p with the most recent last_access of the index.
C5_LruOrder ==
    /\ last.op = "cache_file" =>
          /\ \A i, j \in DOMAIN last.evicted :
                i < j => last.evicted[i].last_access <= last.evicted[j].last_access
          /\ \A e \in Entries(last.evicted), s \in Entries(metadata_cache) :
                e.last_access <= s.last_access
    /\ (last.op = "get_cached_file" /\ last.ret # <<>>) =>
          \A s \in Entries(metadata_cache) :
              s.last_access <= Lookup(metadata_cache, last.file_path).last_access

C5_Witness ==
    /\ last.op = "cache_file"
    /\ last.evicted # <<>>
    /\ metadata_cache # <<>>
    /\ \A e \in Entries(last.evicted), s \in Entries(metadata_cache) :
          e.last_access < s.last_access
    /\ \E e \in Entries(last.evicted) : e.access_count > 1

\* the logical paths of a sequence of entries, in order
PathsOf(es) == [i \in DOMAIN es |-> es[i].file_path]

\* C6: with capacity 4096, five distinct 1024-byte .json entries cached one
\* after another at increasing times: the 4th insert evicts nothing (4096 is
\* at the bound) and the 5th removes exactly the two least recently accessed
\* entries, leaving the three most recent (3072 bytes).
C6_Scenario ==
    /\ Len(scenario) = 4 =>
          /\ last.evicted = <<>>
          /\ PathsOf(metadata_cache) = scenario
          /\ current_cache_size = 4096
    /\ Len(scenario) = 5 =>
          /\ PathsOf(last.evicted) = SubSeq(scenario, 1, 2)
          /\ PathsOf(metadata_cache) = SubSeq(scenario, 3, 5)
          /\ current_cache_size = 3072

\* C7: when the backing file of a cached entry p is gone, get_cached_file(p)
\* returns None and removes p from the index, and a further get_cached_file(p)
\* returns None again and changes nothing.
C7_SelfHeal ==
    (last.op = "get_cached_file" /\ last.pre_cached /\ ~last.pre_exists)
    => LET again == get_cached_file(metadata_cache, small_files_dir,
                                    last.file_path, now)
       IN  /\ last.ret = <<>>
           /\ last.file_path \notin Keys(metadata_cache)
           /\ again.ret = <<>>
           /\ again.mc = metadata_cache

C7_Witness ==
    /\ last.op = "get_cached_file"
    /\ last.pre_cached
    /\ ~last.pre_exists
    /\ metadata_cache # <<>>

\* the object an entry names is in the small-files directory, whole
Intact(e, dsk) ==
    /\ Exists(dsk, e.cache_location)
    /\ dsk[e.cache_location].len = e.size
    /\ file_hash(dsk[e.cache_location]) = e.hash

\* C8: every entry of the index has its object in the small-files directory,
\* in every state that cache_file, get_cached_file and eviction reach.
C8_EntryHasObject ==
    \A e \in Entries(metadata_cache) : Exists(small_files_dir, e.cache_location)

\* C9: a path that is absent from the index enters it only by a cache_file
\* call for that path, across persists and restarts.
C9_NoResurrection ==
    [][\A p \in RestartPaths :
          (p \notin Keys(metadata_cache) /\ p \in Keys(metadata_cache'))
          => (last'.op = "cache_file" /\ last'.file_path = p)]_vars

\* C10: after a cache_file call whose write failed, no entry of the index
\* names a missing or incomplete object.
C10_FailedWrite ==
    last.op = "cache_file_failed"
    => \A e \in Entries(metadata_cache) : Intact(e, small_files_dir)

\* C11: when the unlink() of an entry's file fails during an eviction sweep,
\* the sweep is not aborted: that entry is still removed from the index, and
\* the sweep goes on until current_cache_size is at the low-water mark or the
\* index is empty.
C11_UnlinkFailure ==
    last.op = "cache_file_unlink_failed"
    => /\ last.failed.file_path \notin Keys(metadata_cache)
       /\ \/ AtLowWater(current_cache_size, cache_size_limit)
          \/ metadata_cache = <<>>

\* C12: when the snapshot file is malformed at startup, initialization does
\* not abort: an AIStor is constructed with an empty index, ready for
\* cache_file and get_cached_file calls.
C12_CorruptSnapshot ==
    (last.op \in {"restart", "init_raised"} /\ Malformed(metadata_file))
    => /\ Alive
       /\ metadata_cache = <<>>
       /\ current_cache_size = 0

AllowedAnyCase ==
    { ".json", ".JSON", ".Json", ".yaml", ".yml", ".YML", ".csv", ".txt",
      ".pkl", ".PKL" }

\* the name has a final extension, and it is an allowed one
HasAllowedExtension(name) ==
    /\ Len(name) >= 2
    /\ name[Len(name)] \in AllowedAnyCase

\* C14: should_cache(path, s) is false whenever s > small_file_threshold,
\* whatever the extension, and a size equal to the threshold is not rejected by
\* the size test.
C14_Threshold ==
    last.op = "should_cache"
    => /\ last.file_size > small_file_threshold => last.ret = FALSE
       /\ (last.file_size = small_file_threshold
            /\ HasAllowedExtension(last.name)) => last.ret = TRUE

C14_Witness ==
    /\ last.op = "should_cache"
    /\ last.file_size > small_file_threshold
    /\ last.name = <<"a", ".json">>
    /\ last.ret = FALSE

\* C15: for s <= small_file_threshold, should_cache(path, s) is true exactly
\* when the final extension of the path is, case-insensitively, one of .json,
\* .yaml, .yml, .csv, .txt, .pkl; unknown and missing extensions give false.
C15_Extension ==
    (last.op = "should_cache" /\ last.file_size <= small_file_threshold)
    => last.ret = HasAllowedExtension(last.name)

C15_Witness ==
    /\ last.op = "should_cache"
    /\ last.file_size <= small_file_threshold
    /\ last.name = <<"a", ".YML">>
    /\ last.ret = TRUE

\* the unit suffixes of the claim in any letter case, and their factors
Factor(suffix) ==
    CASE suffix \in {<<"B">>, <<"b">>}                             -> 1
      [] suffix \in {<<"K", "B">>, <<"k", "b">>, <<"K", "b">>} -> 1024
      [] suffix \in {<<"M", "B">>, <<"m", "b">>}                 -> 1048576
      [] suffix \in {<<"G", "B">>, <<"g", "b">>, <<"G", "b">>} -> 1073741824
      [] OTHER                                                    -> 0

\* C16: for every n >= 0 and every suffix B, KB, MB, GB in any letter case,
\* _parse_size(str(n) + suffix) returns n times 1, 1024, 1024^2, 1024^3; the
\* default "1GB" gives 1073741824.
C16_ParseSize ==
    (last.op = "parse_size" /\ Factor(last.suffix) # 0
                            /\ last.n <= 1073741824 \div Factor(last.suffix))
    => last.ret = <<last.n * Factor(last.suffix)>>

\* C17: with cache_file, get_cached_file and eviction called by concurrent
\* threads, a thread that is about to make a call never finds the index and
\* current_cache_size out of step: not an entry that is present but not
\* counted, not one that is counted but removed, and no += or -= is lost.
C17_AtomicUpdates ==
    \A t \in Threads :
        threads[t].pc = "idle"
        => current_cache_size = SumSizes(metadata_cache)

\* C18: get_cache_stats is a pure read: a call leaves the index,
\* current_cache_size and the files of the small-files directory as they were.
C18_StatsPureRead ==
    [][last'.op = "get_cache_stats"
       => /\ metadata_cache' = metadata_cache
          /\ current_cache_size' = current_cache_size
          /\ small_files_dir' = small_files_dir]_vars

C18_Witness ==
    /\ last.op = "get_cache_stats"
    /\ Len(metadata_cache) = 2
    /\ metadata_cache[1].access_count < metadata_cache[2].access_count
    /\ last.ret.most_accessed_files[1][1] = metadata_cache[2].file_path

\* C19: when get_cached_file removes an entry whose file is gone, it lowers
\* current_cache_size by the size of that entry.
C19_SelfHealAccounting ==
    [][(last'.op = "get_cached_file" /\ last'.pre_cached /\ ~last'.pre_exists)
       => current_cache_size' =
              current_cache_size
                  - Lookup(metadata_cache, last'.file_path).size]_vars

\* C20: after a restart that has loaded a snapshot with entries,
\* current_cache_size is the sum of the sizes of the restored entries.
C20_RestartAccounting ==
    (last.op = "restart" /\ metadata_cache # <<>>)
    => current_cache_size = SumSizes(metadata_cache)

\* C21: the eviction that cache_file(p, b) triggers does not remove the entry
\* of p that the call has just inserted, unless len(b) alone is more than
\* 0.8 * cache_size_limit; whatever inserts, re-inserts, self-heals and
\* evictions came before.
C21_NoSelfEviction ==
    (last.op = "cache_file"
     /\ AtLowWater(last.file_data.len, cache_size_limit))
    => /\ \A e \in Entries(last.evicted) : e.file_path # last.file_path
       /\ last.file_path \in Keys(metadata_cache)

\* C22: after any sequence of cache_file, get_cached_file, evictions and
\* restarts, the files of the small-files directory hold at most
\* cache_size_limit bytes in all, unless one file alone is larger than that.
C22_StoredBytesBound ==
    (\A loc \in DOMAIN small_files_dir :
        small_files_dir[loc].len <= cache_size_limit)
    => StoredBytes(small_files_dir) <= cache_size_limit

\* C23: when cache_file(p, b2) is called while p is cached with other content
\* b1, the index then has exactly one entry for p, which describes b2, and the
\* file written for b1 is no longer in the small-files directory.
C23_Replace ==
    [][(/\ last'.op = "cache_file"
        /\ last'.file_path \in Keys(metadata_cache)
        /\ Lookup(metadata_cache, last'.file_path).hash
               # file_hash(last'.file_data))
       => LET p   == last'.file_path
              old == Lookup(metadata_cache, p)
              new == SelectSeq(metadata_cache', LAMBDA e : e.file_path = p)
          IN  /\ Len(new) = 1
              /\ new[1].size = last'.file_data.len
              /\ new[1].hash = file_hash(last'.file_data)
              /\ new[1].cache_location = last'.ret
              /\ ~Exists(small_files_dir', old.cache_location)]_vars

\* C24: a call that evicts or self-heals the entry of one path leaves every
\* entry that is still in the index with its file: the file it had before the
\* call, or the one the call has written for it.
C24_EvictionIsolation ==
    [][last'.op \in {"cache_file", "get_cached_file"}
       => \A s \in Entries(metadata_cache') :
             (\/ Exists(small_files_dir, s.cache_location)
              \/ (last'.op = "cache_file" /\ s.file_path = last'.file_path))
             => Exists(small_files_dir', s.cache_location)]_vars

\* the payload that the entry e records: the payloads of CollidePayloads differ
\* in length, so the size of the entry names one of them
RecordedPayload(e) == CHOOSE b \in CollidePayloads : b.len = e.size

\* C25: when get_cached_file(p) returns bytes, they are the payload of the
\* most recent cache_file(p, ...) call, the one the entry of p records,
\* whatever cache_file calls were made for other paths, paths with the same
\* basename and payloads with the same truncated digest included.
C25_HitReturnsOwnContent ==
    (last.op = "get_cached_file" /\ last.ret # <<>>)
    => last.ret[1] = RecordedPayload(Lookup(metadata_cache, last.file_path))

\* C26: every entry of the index satisfies the caching policy: its size is at
\* most small_file_threshold and its extension is in the allow-list, so
\* cache_file never stores a payload should_cache rejects.
C26_CacheabilityGate ==
    \A e \in Entries(metadata_cache) :
        should_cache(small_file_threshold, e.file_path, e.size)

\* C27: when _enforce_cache_limits runs with current_cache_size at or below
\* cache_size_limit, exactly equal included, it changes nothing: the index,
\* the counter and the directory after the cache_file call that ran it are
\* the ones the call had built before it ran.
C27_NoOpAtOrBelowLimit ==
    [][(last'.op = "cache_file" /\ last'.pre_sweep <= cache_size_limit)
       => /\ metadata_cache' =
                DictSet(metadata_cache,
                        FileMetadata(last'.file_path, last'.file_data.len,
                                     file_hash(last'.file_data), 1, now,
                                     last'.ret))
          /\ current_cache_size' = last'.pre_sweep
          /\ small_files_dir' =
                WriteFile(small_files_dir, last'.ret, last'.file_data)
          /\ last'.evicted = <<>>]_vars

C27_Witness ==
    /\ last.op = "cache_file"
    /\ last.pre_sweep = cache_size_limit
    /\ current_cache_size = cache_size_limit
    /\ Len(metadata_cache) = 2
    /\ \A e \in Entries(metadata_cache) : Exists(small_files_dir, e.cache_location)

C29_TieBreak ==
    last.op = "cache_file"
    => \A i \in DOMAIN last.evicted :
          last.evicted[i].file_path = last.file_path
          => /\ \A s \in Entries(metadata_cache) :
                    s.last_access # last.evicted[i].last_access
             /\ \A j \in DOMAIN last.evicted :
                    (j > i) => last.evicted[j].last_access
                                  # last.evicted[i].last_access

\* C30: current_cache_size is never negative, in any state that cache_file,
\* get_cached_file, evictions, persists and restarts over the snapshot reach.
C30_CounterNonNegative == current_cache_size >= 0

\* C31: an entry is created with access_count = 1; a successful
\* get_cached_file(p) raises the access_count of p by exactly 1 and sets its
\* last_access to the current time; a miss or a self-heal changes the
\* access_count and last_access of no entry.  So every entry of the index
\* after a step is the one cache_file has just created, the one the hit has
\* just counted, or an entry that was there before with the same statistics,
\* and access_count is 1 plus the number of hits since the last cache_file.
C31_AccessStatistics ==
    [][\A e \in Entries(metadata_cache') :
          IF last'.op = "cache_file" /\ e.file_path = last'.file_path
          THEN e.access_count = 1 /\ e.last_access = now
          ELSE IF /\ last'.op = "get_cached_file" /\ last'.ret # <<>>
                  /\ e.file_path = last'.file_path
               THEN /\ e.file_path \in Keys(metadata_cache)
                    /\ e.access_count =
                          Lookup(metadata_cache, e.file_path).access_count + 1
                    /\ e.last_access = now
               ELSE e \in Entries(metadata_cache)]_vars

C31_Witness ==
    /\ last.op = "get_cached_file"
    /\ last.ret # <<>>
    /\ now = 2
    /\ Lookup(metadata_cache, last.file_path).access_count = 2
    /\ Lookup(metadata_cache, last.file_path).last_access = 2
    /\ \E e \in Entries(metadata_cache) :
          e.file_path # last.file_path /\ e.access_count = 1 /\ e.last_access = 0

\* C32: a successful get_cached_file(p) changes only the access_count and
\* last_access of p: the size, hash and cache_location of p, every other
\* entry, the indexed paths, current_cache_size and the files of the
\* directory are as they were before the call.
C32_HitFrame ==
    [][(last'.op = "get_cached_file" /\ last'.ret # <<>>)
       => /\ Len(metadata_cache') = Len(metadata_cache)
          /\ \A i \in DOMAIN metadata_cache :
                IF metadata_cache[i].file_path = last'.file_path
                THEN metadata_cache'[i] =
                       [metadata_cache[i] EXCEPT
                          !.access_count = metadata_cache'[i].access_count,
                          !.last_access = metadata_cache'[i].last_access]
                ELSE metadata_cache'[i] = metadata_cache[i]
          /\ current_cache_size' = current_cache_size
          /\ small_files_dir' = small_files_dir]_vars

C32_Witness ==
    /\ last.op = "get_cached_file"
    /\ last.ret # <<>>
    /\ Len(metadata_cache) = 2
    /\ Lookup(metadata_cache, last.file_path).access_count = 2
    /\ Lookup(metadata_cache, last.file_path).size # last.ret[1].len

\* C33: get_cached_file(p) for a path p that is not in the index returns None
\* and leaves the index, current_cache_size and the files of the directory
\* unchanged.
C33_MissFrame ==
    [][(last'.op = "get_cached_file" /\ last'.file_path \notin Keys(metadata_cache))
       => /\ last'.ret = <<>>
          /\ metadata_cache' = metadata_cache
          /\ current_cache_size' = current_cache_size
          /\ small_files_dir' = small_files_dir]_vars

C33_Witness ==
    /\ last.op = "get_cached_file"
    /\ ~last.pre_cached
    /\ last.ret = <<>>
    /\ last.file_path \notin Keys(metadata_cache)
    /\ Len(metadata_cache) = 2
    /\ current_cache_size > 0

\* C34: a snapshot record with unknown extra fields besides the required ones
\* is loaded with the extra fields ignored, and a record without a required
\* field fails alone: after a start over a well-formed snapshot file an AIStor
\* exists whose index has exactly the records that carry every required
\* field, each with the values of its required fields.
C34_ForwardCompatibleLoad ==
    (last.op \in {"restart", "init_raised"} /\ Len(metadata_file) = 1)
    => LET data == metadata_file[1]
           good == { i \in DOMAIN data : RequiredFields \subseteq DOMAIN data[i].value }
       IN  /\ Alive
           /\ Keys(metadata_cache) = { data[i].key : i \in good }
           /\ \A i \in good :
                 \A f \in RequiredFields :
                     Lookup(metadata_cache, data[i].key)[f] = data[i].value[f]

\* C35: when the process stops at any point of a periodic persist, the
\* snapshot file is the complete previous snapshot or the complete new one,
\* and the next startup can load it.
C35_SnapshotCrashAtomic ==
    [][last'.op = "killed"
       => /\ metadata_file' \in {metadata_file, <<Dump(metadata_cache)>>}
          /\ ~InitRaises(metadata_file')]_vars

\* C36: when the periodic persist runs while another thread calls cache_file
\* and get_cached_file, it never fails because the index changed under it,
\* and the snapshot it writes is the index as it was at one single instant
\* between its beginning and its end.
C36_ConsistentSnapshot ==
    /\ last.op # "persist_failed"
    /\ last.op = "persist_done" => metadata_file[1] \in last.instants

\* the position of path p in the index
Position(p) == CHOOSE i \in DOMAIN metadata_cache : metadata_cache[i].file_path = p

\* C37: most_accessed_files of get_cache_stats has min(5, number of entries)
\* pairs, each a path of the index with its access_count and no path twice,
\* in descending order of access_count with equal counts in the order of the
\* index, and no entry outside the list has a larger access_count than one
\* inside it.
C37_TopN ==
    last.op = "get_cache_stats"
    => LET top == last.ret.most_accessed_files
           n   == Len(metadata_cache)
       IN  /\ Len(top) = IF n < 5 THEN n ELSE 5
           /\ \A i \in DOMAIN top :
                 /\ top[i][1] \in Keys(metadata_cache)
                 /\ top[i][2] = Lookup(metadata_cache, top[i][1]).access_count
           /\ \A i, j \in DOMAIN top :
                 i < j => /\ top[i][1] # top[j][1]
                          /\ top[i][2] >= top[j][2]
                          /\ top[i][2] = top[j][2]
                                => Position(top[i][1]) < Position(top[j][1])
           /\ \A e \in Entries(metadata_cache) :
                 (\A i \in DOMAIN top : top[i][1] # e.file_path)
                 => \A i \in DOMAIN top : e.access_count <= top[i][2]

C37_Witness ==
    /\ last.op = "get_cache_stats"
    /\ Len(metadata_cache) = 6
    /\ Len(last.ret.most_accessed_files) = 5
    /\ last.ret.most_accessed_files[1] = <<metadata_cache[2].file_path, 2>>
    /\ last.ret.most_accessed_files[2] = <<metadata_cache[6].file_path, 2>>
    /\ last.ret.most_accessed_files[3] = <<metadata_cache[1].file_path, 1>>
    /\ metadata_cache[5].access_count = 1

\* C38: every run of _enforce_cache_limits finishes after visiting each entry
\* that was in the index when it began at most once, and it ends at the
\* low-water mark or with an empty index, also when files of entries are
\* missing or one entry is larger than the limit: the entries a returned
\* cache_file has evicted are entries of the index the sweep began with, each
\* of them once, and after a sweep that ran the counter is at or below
\* 0.8 * cache_size_limit or no entry is left.
C38_SweepEnds ==
    [][last'.op = "cache_file"
       => LET start == DictSet(metadata_cache,
                               FileMetadata(last'.file_path, last'.file_data.len,
                                            file_hash(last'.file_data), 1, now,
                                            last'.ret))
          IN  /\ \A i, j \in DOMAIN last'.evicted :
                    i # j => last'.evicted[i].file_path # last'.evicted[j].file_path
              /\ \A e \in Entries(last'.evicted) : e \in Entries(start)
              /\ Len(last'.evicted) <= Len(start)
              /\ last'.pre_sweep > cache_size_limit
                    => \/ 5 * current_cache_size' <= 4 * cache_size_limit
                       \/ metadata_cache' = <<>>]_vars

C38_Witness ==
    /\ last.op = "cache_file"
    /\ last.file_data.len > cache_size_limit
    /\ Len(last.evicted) = 2
    /\ last.counters[1] = last.counters[2]
    /\ metadata_cache = <<>>
    /\ 5 * current_cache_size > 4 * cache_size_limit

=============================================================================
